---- MODULE Spec2Model ----
(***************************************************************************)
(* State-machine model of the ChatPage component (src/unnamed/part_002):   *)
(* the voice/text session with the agent.  One action is one macrotask of  *)
(* the browser's event loop: a user gesture, a timer tick, a stream event  *)
(* or the resumption of an awaited request, run up to its next real await. *)
(* Handlers are written as functions from a state record to a state        *)
(* record, composed in program order, and committed by the action.         *)
(*                                                                         *)
(* React state (useState) is kept at its latest value; a handler run by a  *)
(* user gesture or created inside connectToServer closes over the values  *)
(* of the render it was created in, which the model stores with the        *)
(* in-flight call, the stream, the recorder or the timer that holds the    *)
(* closure.  A functional updater passed to setMessages is run by React    *)
(* when it processes the update queue: at once when the component has no   *)
(* scheduled update, at the next render otherwise.                         *)
(***************************************************************************)
EXTENDS Integers, Sequences, FiniteSets, Bags, TLC

\* ---------------------------------------------------------------- bounds
MaxConnectClicks == 1     \* presses of the Connect button
MaxStarts == 2            \* presses of Start Voice with none in flight
MaxRestarts == 1          \* presses of Start Voice with one in flight
MaxStops == 1             \* presses of Stop Voice or Disconnect
MaxEvents == 3            \* inbound message events delivered
MaxErrors == 1            \* stream error events
MaxChunks == 2            \* speech frames captured
MaxPosts == 2             \* outbound audio requests issued by the timer
MaxToggles == 1           \* presses of the mute button
MaxSends == 2             \* presses of the Send button
MaxMalformed == 1         \* malformed inbound events delivered
MaxFrameLen == 2          \* samples in a frame handed to convertFloat32ToPCM

\* The voice-activity threshold of audioRecorderHandler.
RmsThreshold == 100

\* Payloads the server may put in a text event ("" is the empty string) and
\* the decoded bytes of an audio event.
Texts == {<<>>, <<"A">>, <<"B">>}
AudioData == {1}
\* What the user may have typed in the input box, character by character.
Inputs == {<<>>, <<" ">>, <<"h">>, <<"h", " ">>}
\* The scale factor 0x7fff and the Int16 range of convertFloat32ToPCM.
PcmScale == 32767
PcmMin == -32768
PcmMax == 32767

\* A Float32 sample is written as a fraction k / den, or as NaN.  Fine samples
\* have the denominator SampleDen, so that their product with 0x7fff is k / 2
\* and odd numerators give products that are not integers; coarse samples
\* are halves, of any magnitude.  An infinite sample behaves as one of large
\* magnitude.
SampleDen == 2 * PcmScale
Num(k) == [nan |-> FALSE, k |-> k, den |-> SampleDen]
Half(k) == [nan |-> FALSE, k |-> k, den |-> 2]
NaN == [nan |-> TRUE, k |-> 0, den |-> 1]

\* The integer n as a fraction of denominator den.
Whole(n, den) == [nan |-> FALSE, k |-> n * den, den |-> den]

\* inputData[i] * 0x7fff (line 75).
Times(x, c) == IF x.nan THEN NaN ELSE [x EXCEPT !.k = @ * c]

\* Math.min and Math.max of two fractions of one denominator: NaN if either
\* argument is NaN.
MathMin(a, b) == IF a.nan \/ b.nan THEN NaN ELSE IF a.k <= b.k THEN a ELSE b
MathMax(a, b) == IF a.nan \/ b.nan THEN NaN ELSE IF a.k >= b.k THEN a ELSE b

\* The store into an Int16Array element: NaN becomes 0, the fraction is
\* dropped towards zero and the integer is taken modulo 2^16.
ToInt16(v) ==
    IF v.nan THEN 0
    ELSE LET n == IF v.k >= 0 THEN v.k \div v.den ELSE -((-v.k) \div v.den)
         IN ((n + 32768) % 65536) - 32768

\* A conversion that narrows the scaled sample without clamping it.
convertFloat32ToPCM_unclamped(inputData) ==
    [i \in 1..Len(inputData) |-> ToInt16(Times(inputData[i], PcmScale))]

\* convertFloat32ToPCM (lines 72-78).
convertFloat32ToPCM(inputData) ==
    [i \in 1..Len(inputData) |->
        ToInt16(MathMax(Whole(PcmMin, inputData[i].den),
                        MathMin(Whole(PcmMax, inputData[i].den),
                                Times(inputData[i], PcmScale))))]

\* The samples a frame may hold: silence, samples around the voice-activity
\* threshold, full scale, just beyond full scale, twice full scale, a
\* thousand times full scale, NaN.
Samples ==
    {Num(k) : k \in {0, 200, 201, 202, -601, SampleDen, -SampleDen,
                     SampleDen + 2, -(SampleDen + 4)}}
    \cup {Half(k) : k \in {4, -4, 2000}} \cup {NaN}

\* Every frame of at most n samples.
FramesUpTo(n) == UNION {[1..m -> Samples] : m \in 0..n}

\* The frames the recorder worklet may post to port.onmessage (line 108).
FloatFrames ==
    {<<>>, <<Num(0), Num(0)>>, <<Num(200), Num(200)>>, <<Num(201), Num(202)>>,
     <<Num(-601)>>, <<Half(4), Half(-2000)>>}

\* The PCM16 frames audioRecorderHandler is called with (lines 108-111).
Frames == {convertFloat32ToPCM(x) : x \in FloatFrames}

InboundEvents ==
    {[type |-> "turn_complete", data |-> <<>>], [type |-> "interrupted", data |-> <<>>]}
    \cup {[type |-> "text", data |-> d] : d \in Texts}
    \cup {[type |-> "audio", data |-> <<a>>] : a \in AudioData}

VARIABLES
    mounted,                  \* "init", "mounted" or "unmounted"
    isConnected, isVoiceEnabled, isRecording, isMuted, isTyping,
    messages,                 \* the transcript
    pendingMsgs,              \* setMessages updaters React has not run yet
    dirty,                    \* the component has a scheduled update
    shown,                    \* the state values of the render on screen
    eventSourceRef, currentMessageIdRef,
    audioPlayerNodeRef, audioPlayerContextRef,
    audioRecorderNodeRef, audioRecorderContextRef, micStreamRef,
    audioBufferRef, bufferTimerRef,
    streams,                  \* every EventSource created, by creation order
    players,                  \* every playback AudioContext created
    recorders,                \* every capture AudioContext created
    timers,                   \* every setInterval handle created
    procs,                    \* bag of async calls suspended at an await
    nextMsgId, nextChunk,
    sentCount,                \* history: audio requests that carried each chunk
    dropped,                  \* history: chunks cleared from the buffer unsent
    lastAudioPost,            \* history: the session when audio was last posted
    afterError,               \* history: a stream error, no connect call since
    afterClose,               \* history: disconnect completed, no connect since
    turnText,                 \* history: text received since the message opened
    lastTurn,                 \* history: the turn the last turn_complete closed
    closedTurns,              \* history: ids of the messages of ended turns
    openedOn,                 \* history: the stream that opened the message
                              \* the pointer names
    pcm,                      \* a frame and what convertFloat32ToPCM makes of it
    used                      \* how much of each bound is used

vars == <<mounted, isConnected, isVoiceEnabled, isRecording, isMuted, isTyping,
          messages, pendingMsgs, dirty, shown, eventSourceRef, currentMessageIdRef,
          audioPlayerNodeRef, audioPlayerContextRef, audioRecorderNodeRef,
          audioRecorderContextRef, micStreamRef, audioBufferRef, bufferTimerRef,
          streams, players, recorders, timers, procs, nextMsgId, nextChunk,
          sentCount, dropped, lastAudioPost, afterError, afterClose, turnText,
          lastTurn, closedTurns, openedOn, pcm, used>>

\* The state as one record, for the handlers to transform.
Cur ==
    [mounted |-> mounted, isConnected |-> isConnected,
     isVoiceEnabled |-> isVoiceEnabled, isRecording |-> isRecording,
     isMuted |-> isMuted, isTyping |-> isTyping, messages |-> messages,
     pendingMsgs |-> pendingMsgs, dirty |-> dirty, shown |-> shown,
     eventSourceRef |-> eventSourceRef, currentMessageIdRef |-> currentMessageIdRef,
     audioPlayerNodeRef |-> audioPlayerNodeRef,
     audioPlayerContextRef |-> audioPlayerContextRef,
     audioRecorderNodeRef |-> audioRecorderNodeRef,
     audioRecorderContextRef |-> audioRecorderContextRef,
     micStreamRef |-> micStreamRef, audioBufferRef |-> audioBufferRef,
     bufferTimerRef |-> bufferTimerRef, streams |-> streams, players |-> players,
     recorders |-> recorders, timers |-> timers, procs |-> procs,
     nextMsgId |-> nextMsgId, nextChunk |-> nextChunk, sentCount |-> sentCount,
     dropped |-> dropped, lastAudioPost |-> lastAudioPost,
     afterError |-> afterError, afterClose |-> afterClose,
     turnText |-> turnText, lastTurn |-> lastTurn, closedTurns |-> closedTurns,
     openedOn |-> openedOn, pcm |-> pcm, used |-> used]

Commit(n) ==
    /\ mounted' = n.mounted
    /\ isConnected' = n.isConnected
    /\ isVoiceEnabled' = n.isVoiceEnabled
    /\ isRecording' = n.isRecording
    /\ isMuted' = n.isMuted
    /\ isTyping' = n.isTyping
    /\ messages' = n.messages
    /\ pendingMsgs' = n.pendingMsgs
    /\ dirty' = n.dirty
    /\ shown' = n.shown
    /\ eventSourceRef' = n.eventSourceRef
    /\ currentMessageIdRef' = n.currentMessageIdRef
    /\ audioPlayerNodeRef' = n.audioPlayerNodeRef
    /\ audioPlayerContextRef' = n.audioPlayerContextRef
    /\ audioRecorderNodeRef' = n.audioRecorderNodeRef
    /\ audioRecorderContextRef' = n.audioRecorderContextRef
    /\ micStreamRef' = n.micStreamRef
    /\ audioBufferRef' = n.audioBufferRef
    /\ bufferTimerRef' = n.bufferTimerRef
    /\ streams' = n.streams
    /\ players' = n.players
    /\ recorders' = n.recorders
    /\ timers' = n.timers
    /\ procs' = n.procs
    /\ nextMsgId' = n.nextMsgId
    /\ nextChunk' = n.nextChunk
    /\ sentCount' = n.sentCount
    /\ dropped' = n.dropped
    /\ lastAudioPost' = n.lastAudioPost
    /\ afterError' = n.afterError
    /\ afterClose' = n.afterClose
    /\ turnText' = n.turnText
    /\ lastTurn' = n.lastTurn
    /\ closedTurns' = n.closedTurns
    /\ openedOn' = n.openedOn
    /\ pcm' = n.pcm
    /\ used' = n.used

\* ------------------------------------------------------------ transcript
\* A notice: ids of notices are Date.now() strings, never equal to the
\* current-message pointer (a random id, or null, written 0); they are all
\* written -1 here.
Notice(kind) == [id |-> -1, content |-> <<kind>>, sender |-> "ai"]

\* The message the component starts with (useState initial value, id "1").
Greeting == [id |-> -1, content |-> <<"greeting">>, sender |-> "ai"]

Add(m) == [op |-> "add", msg |-> m, text |-> <<>>]
AppendText(t) == [op |-> "map", msg |-> Greeting, text |-> t]

\* One updater applied to the transcript; cur is the value the updater reads
\* from currentMessageIdRef.current when it runs.
ApplyOp(ms, op, cur) ==
    IF op.op = "add"
    THEN Append(ms, op.msg)
    ELSE [i \in 1..Len(ms) |->
            IF ms[i].id = cur THEN [ms[i] EXCEPT !.content = @ \o op.text] ELSE ms[i]]

RECURSIVE ApplyOps(_, _, _)
ApplyOps(ms, ops, cur) ==
    IF ops = <<>> THEN ms ELSE ApplyOps(ApplyOp(ms, Head(ops), cur), Tail(ops), cur)

\* setX(v) of a useState boolean: ignored once unmounted; schedules an update
\* unless v is the current value and nothing is scheduled.
SetState(s, f, v) ==
    IF s.mounted # "mounted" THEN s
    ELSE [s EXCEPT ![f] = v, !.dirty = @ \/ s[f] # v]

\* setMessages(updater): run at once when nothing is queued before it and
\* either it reads no ref or the component has no scheduled update.
SetMessages(s, op) ==
    IF s.mounted # "mounted" THEN s
    ELSE IF s.pendingMsgs = <<>> /\ (op.op = "add" \/ ~s.dirty)
    THEN [s EXCEPT !.messages = ApplyOp(@, op, s.currentMessageIdRef), !.dirty = TRUE]
    ELSE [s EXCEPT !.pendingMsgs = Append(@, op), !.dirty = TRUE]

\* The state values a render puts on screen: they decide which buttons are
\* shown, and the handlers of those buttons close over them.
Screen(s) ==
    [isConnected |-> s.isConnected, isVoiceEnabled |-> s.isVoiceEnabled,
     isMuted |-> s.isMuted]

\* React processes the update queue: queued updaters run now, in order, and
\* the result is put on screen.
RenderState(s) ==
    [s EXCEPT !.messages = ApplyOps(@, s.pendingMsgs, s.currentMessageIdRef),
              !.pendingMsgs = <<>>, !.dirty = FALSE, !.shown = Screen(s)]

\* ---------------------------------------------------------------- procs
P0 == [kind |-> "none", pc |-> "none", audio |-> FALSE, conn |-> FALSE,
       muted |-> FALSE, disc |-> FALSE, player |-> 0, recorder |-> 0,
       cancelled |-> FALSE]

Spawn(s, p) == [s EXCEPT !.procs = @ (+) SetToBag({p})]
Retire(s, p) == [s EXCEPT !.procs = @ (-) SetToBag({p})]
InFlight(kind) == {p \in BagToSet(procs) : p.kind = kind}

Use(s, b) == [s EXCEPT !.used[b] = @ + 1]

\* ------------------------------------------------------------- streams
\* eventSource.close()
CloseStream(s, i) ==
    IF i = 0 THEN s ELSE [s EXCEPT !.streams[i].rs = "closed"]

\* connectToServer up to its await of the health request (lines 307-318).
connectToServer_begin(s, audioMode) == CloseStream(s, s.eventSourceRef)

\* History: the user asks for a connection (Connect, Start Voice, Stop Voice,
\* or opening the page).
Requested(s) == [s EXCEPT !.afterError = FALSE, !.afterClose = FALSE]

\* The health request answered OK: the EventSource is created (lines 326-330);
\* muted is the isMuted its onmessage closes over.
connectToServer_open(s, audioMode, muted) ==
    [s EXCEPT !.streams = Append(@, [audio |-> audioMode, muted |-> muted,
                                      rs |-> "connecting"]),
              !.eventSourceRef = Len(s.streams) + 1]

\* connectToServer's catch block without its setIsConnected(false).
connectToServer_catch_keepsConnected(s) ==
    SetMessages(s, Add(Notice("connect_failed")))

\* The health request failed or was not OK: the catch block (lines 418-433).
connectToServer_catch(s) ==
    SetMessages(SetState(s, "isConnected", FALSE), Add(Notice("connect_failed")))

connectToServer_end(s, audioMode, muted, ok) ==
    IF ok THEN connectToServer_open(s, audioMode, muted) ELSE connectToServer_catch(s)


\* The mode of the session's stream: that of the EventSource the ref holds,
\* unless it is closed.
StreamMode(s) ==
    IF s.eventSourceRef = 0 \/ s.streams[s.eventSourceRef].rs = "closed" THEN "none"
    ELSE IF s.streams[s.eventSourceRef].audio THEN "audio" ELSE "text"

\* eventSource.onopen (lines 332-345) of stream i.
onopen(s, i) ==
    LET s1 == SetState(s, "isConnected", TRUE)
    IN IF ~s.streams[i].audio
       THEN SetMessages(s1, Add(Notice("connected")))
       ELSE s1

\* An onerror that only clears the connected flag.
onerror_silent(s, i) ==
    SetState([s EXCEPT !.afterError = TRUE], "isConnected", FALSE)

\* eventSource.onerror (lines 405-416).
onerror(s, i) ==
    SetMessages(SetState([s EXCEPT !.afterError = TRUE], "isConnected", FALSE),
                Add(Notice("connection_lost")))

\* ------------------------------------------------------------ playback
\* The player worklet's port: a decoded buffer is queued, "endOfAudio"
\* discards what is queued.  A closed context takes nothing.
PlayerEnqueue(s, n, bytes) ==
    IF s.players[n].closed THEN s
    ELSE [s EXCEPT !.players[n].queue = Append(@, bytes)]

PlayerEndOfAudio(s, n) ==
    IF s.players[n].closed THEN s
    ELSE [s EXCEPT !.players[n].queue = <<>>]

\* ------------------------------------------------------ inbound events
\* The text branch of onmessage (lines 378-399).
onmessage_text(s, ev) ==
    LET s1 == SetState(s, "isTyping", TRUE)
    IN IF s1.currentMessageIdRef = 0
       THEN SetMessages([s1 EXCEPT !.currentMessageIdRef = s.nextMsgId,
                                   !.nextMsgId = @ + 1],
                        Add([id |-> s.nextMsgId, content |-> ev.data, sender |-> "ai"]))
       ELSE SetMessages(s1, AppendText(ev.data))

\* The audio branch of onmessage (lines 371-375) on stream i.
onmessage_audio(s, i, ev) ==
    IF ev.type = "audio" /\ ev.data # <<>> /\ s.audioPlayerNodeRef # 0
       /\ ~s.streams[i].muted
    THEN PlayerEnqueue(s, s.audioPlayerNodeRef, ev.data[1])
    ELSE s

\* The interrupted branch of onmessage (lines 361-368).
onmessage_interrupted(s) ==
    LET s1 == SetState(s, "isTyping", FALSE)
    IN IF s1.audioPlayerNodeRef # 0
       THEN PlayerEndOfAudio(s1, s1.audioPlayerNodeRef)
       ELSE s1

\* The turn_complete branch of onmessage (lines 353-358).
onmessage_turn_complete(s) ==
    [SetState(s, "isTyping", FALSE) EXCEPT !.currentMessageIdRef = 0]

\* History: the server ends the turn, by turn_complete or by interrupted; the
\* message the pointer names when it does is the message of an ended turn.
TurnEnded(s, ev) ==
    IF ev.type \in {"turn_complete", "interrupted"} /\ s.currentMessageIdRef # 0
    THEN [s EXCEPT !.closedTurns = @ \cup {s.currentMessageIdRef}]
    ELSE s

\* History: what the server has sent in the turn; a turn_complete closes it.
Received(s, ev) ==
    IF ev.type = "text"
    THEN [s EXCEPT !.turnText = @ \o ev.data]
    ELSE IF ev.type = "turn_complete"
    THEN [TurnEnded(s, ev) EXCEPT
              !.lastTurn = [id |-> s.currentMessageIdRef, text |-> s.turnText],
              !.turnText = <<>>]
    ELSE TurnEnded(s, ev)

\* History: the stream whose event sets the current-message pointer, until
\* the pointer is reset.
Opened(s, i, ev) ==
    IF ev.type = "text" /\ ev.data # <<>> /\ s.currentMessageIdRef = 0
    THEN [s EXCEPT !.openedOn = i]
    ELSE IF ev.type = "turn_complete" THEN [s EXCEPT !.openedOn = 0]
    ELSE s

\* eventSource.onmessage (lines 347-403) of stream i.
onmessage(s, i, ev) ==
    IF ev.type = "turn_complete" THEN onmessage_turn_complete(s)
    ELSE IF ev.type = "interrupted" THEN onmessage_interrupted(s)
    ELSE LET s1 == onmessage_audio(s, i, ev)
         IN IF ev.type = "text" /\ ev.data # <<>> THEN onmessage_text(s1, ev) ELSE s1

\* event.data payloads that are malformed: text that is not JSON, JSON that
\* is not an object (null, a number), and an audio event whose data is not
\* base64.
Malformed == {"not json", "null", "5", "audio %"}

\* JSON.parse (line 349) of a malformed payload: it throws, or gives a value
\* that is not an event.
JSONparse(raw) ==
    IF raw = "not json" THEN [throws |-> TRUE, value |-> "none"]
    ELSE IF raw = "null" THEN [throws |-> FALSE, value |-> "null"]
    ELSE IF raw = "5" THEN [throws |-> FALSE, value |-> "number"]
    ELSE [throws |-> FALSE, value |-> "audio"]

\* A handler that takes a failure to read an event for a failure of the
\* stream: it closes the stream and reports the connection lost.
onmessage_malformed_fatal(s, i, raw) == onerror(CloseStream(s, i), i)

\* onmessage (lines 347-403) on a malformed payload: the try block runs up to
\* the statement that throws and the catch block (lines 400-402) only logs.
\* JSON.parse throws (line 349); reading a property of null throws (line
\* 353); every property of a number is undefined, so no branch is taken; in
\* the audio branch window.atob throws inside base64ToArray (line 52) before
\* the buffer is posted (line 374), and with no player or when muted the
\* branch is not taken at all.
onmessage_malformed(s, i, raw) ==
    LET d == JSONparse(raw)
    IN IF d.throws THEN s
       ELSE IF d.value \in {"null", "number"} THEN s
       ELSE IF s.audioPlayerNodeRef # 0 /\ ~s.streams[i].muted THEN s
       ELSE s

\* -------------------------------------------------------------- capture
RECURSIVE SumSq(_)
SumSq(f) == IF f = <<>> THEN 0 ELSE Head(f) * Head(f) + SumSq(Tail(f))

\* A voice-activity test that also passes a frame whose RMS is the threshold.
IsSpeech_inclusive(f) ==
    Len(f) > 0 /\ SumSq(f) >= RmsThreshold * RmsThreshold * Len(f)

\* rms > 100 (line 123): sqrt(sum / n) > 100; an empty frame gives NaN,
\* which is not above the threshold.
IsSpeech(f) == Len(f) > 0 /\ SumSq(f) > RmsThreshold * RmsThreshold * Len(f)

\* The session as an outbound audio request sees it when it is issued.
AudioPost(s) ==
    [s EXCEPT !.sentCount = [c \in 1..Len(@) |->
                               IF \E k \in 1..Len(s.audioBufferRef) :
                                      s.audioBufferRef[k] = c
                               THEN @[c] + 1 ELSE @[c]],
              !.lastAudioPost = [mode |-> StreamMode(s), recording |-> s.isRecording,
                                 chunks |-> s.audioBufferRef],
              !.used.posts = @ + 1]

\* audioBufferRef.current = [] (line 171).
\* History: the chunks it discards that no request carried are recorded when
\* the session is connected.
sendBufferedAudio_clear(s) ==
    [s EXCEPT !.audioBufferRef = <<>>,
              !.dropped = IF s.isConnected
                          THEN @ \cup {s.audioBufferRef[k] : k \in
                                          {j \in 1..Len(s.audioBufferRef) :
                                              s.sentCount[s.audioBufferRef[j]] = 0}}
                          ELSE @]

\* Whether sendBufferedAudio awaits a request (lines 134-150); conn is the
\* isConnected its closure holds.
sendBufferedAudio_posts(s, conn) == s.audioBufferRef # <<>> /\ conn

\* sendBufferedAudio when it issues no request: it returns at line 134 or
\* falls through to line 171.
sendBufferedAudio_skip(s) ==
    IF s.audioBufferRef = <<>> THEN s ELSE sendBufferedAudio_clear(s)

\* audioRecorderHandler (lines 117-130) of recorder r on frame f.
audioRecorderHandler(s, r, f) ==
    IF IsSpeech(f)
    THEN LET s1 == [s EXCEPT !.audioBufferRef = Append(@, s.nextChunk),
                             !.nextChunk = @ + 1,
                             !.sentCount = Append(@, 0)]
         IN IF s1.bufferTimerRef = 0
            THEN [s1 EXCEPT !.timers = Append(@, [armed |-> TRUE,
                                                  conn |-> s.recorders[r].conn]),
                            !.bufferTimerRef = Len(s.timers) + 1]
            ELSE s1
    ELSE s

\* ---------------------------------------------------------------- voice
\* startAudioPlayerWorklet up to its await (line 82-83).
startAudioPlayerWorklet_begin(s) ==
    [s EXCEPT !.players = Append(@, [node |-> FALSE, out |-> FALSE,
                                     closed |-> FALSE, queue |-> <<>>])]

\* A catch block that runs after the flags were already set and does not
\* take them back.
startVoiceConversation_catch_recording(s) ==
    SetMessages(SetState(SetState(s, "isVoiceEnabled", TRUE), "isRecording", TRUE),
                Add(Notice("voice_failed")))

\* The catch block of startVoiceConversation (lines 209-218).
startVoiceConversation_catch(s) ==
    SetMessages(s, Add(Notice("voice_failed")))

\* The player worklet is loaded (lines 84-86, 181-182), and the recorder
\* context is created (lines 92-93).
startVoiceConversation_player(s, p) ==
    LET s1 == [s EXCEPT !.players[p.player].node = TRUE,
                        !.players[p.player].out = TRUE,
                        !.audioPlayerNodeRef = p.player,
                        !.audioPlayerContextRef = p.player,
                        !.recorders = Append(@, [mic |-> "none", closed |-> FALSE,
                                                 conn |-> p.conn,
                                                 unwanted |-> FALSE])]
    IN Spawn(s1, [p EXCEPT !.pc = "recorder", !.recorder = Len(s.recorders) + 1])

\* The microphone is granted (lines 95-113, 187-199), up to the await of the
\* health request inside connectToServer(true).
startVoiceConversation_recorder(s, p) ==
    LET s1 == [s EXCEPT !.recorders[p.recorder].mic = "live",
                        !.recorders[p.recorder].unwanted = p.cancelled,
                        !.audioRecorderNodeRef = p.recorder,
                        !.audioRecorderContextRef = p.recorder,
                        !.micStreamRef = p.recorder]
        s2 == SetState(SetState(s1, "isVoiceEnabled", TRUE), "isRecording", TRUE)
        s3 == CloseStream(s2, s2.eventSourceRef)
    IN Spawn(connectToServer_begin(s3, TRUE), [p EXCEPT !.pc = "health"])

\* connectToServer(true) returns (lines 199-207).
startVoiceConversation_end(s, p, ok) ==
    SetMessages(connectToServer_end(s, TRUE, p.muted, ok), Add(Notice("voice_started")))

\* Lines 260-264 of stopVoiceConversation and after: the node refs are
\* cleared and the stream is reconnected in text mode.
stopVoiceConversation_reconnect(s, p) ==
    LET s1 == [s EXCEPT !.audioPlayerNodeRef = 0, !.audioRecorderNodeRef = 0]
        s2 == CloseStream(s1, s1.eventSourceRef)
    IN Spawn(connectToServer_begin(s2, FALSE), [p EXCEPT !.pc = "health"])

\* Lines 251-254: the recorder context is closed, which is awaited.
stopVoiceConversation_closeRecorder(s, p) ==
    IF s.audioRecorderContextRef # 0
    THEN Spawn([s EXCEPT !.recorders[s.audioRecorderContextRef].closed = TRUE],
               [p EXCEPT !.pc = "closeRecorder"])
    ELSE stopVoiceConversation_reconnect(s, p)

\* Lines 239-249: the microphone is released and the player context closed,
\* which is awaited.
stopVoiceConversation_release(s, p) ==
    LET s1 == IF s.micStreamRef # 0
              THEN [s EXCEPT !.recorders[s.micStreamRef].mic = "stopped",
                             !.micStreamRef = 0]
              ELSE s
    IN IF s1.audioPlayerContextRef # 0
       THEN Spawn([s1 EXCEPT !.players[s1.audioPlayerContextRef].closed = TRUE],
                  [p EXCEPT !.pc = "closePlayer"])
       ELSE stopVoiceConversation_closeRecorder(s1, p)

\* clearInterval(bufferTimerRef.current) and the reset of the ref
\* (lines 229-232).
ClearTimer(s) ==
    IF s.bufferTimerRef # 0
    THEN [s EXCEPT !.timers[s.bufferTimerRef].armed = FALSE, !.bufferTimerRef = 0]
    ELSE s

\* stopVoiceConversation up to its first await (lines 222-237).
stopVoiceConversation_begin(s, p) ==
    LET s1 == SetState(SetState(s, "isRecording", FALSE), "isVoiceEnabled", FALSE)
        s2 == ClearTimer(s1)
    IN IF s2.audioBufferRef # <<>>
       THEN IF sendBufferedAudio_posts(s2, p.conn)
            THEN Spawn(AudioPost(s2), [p EXCEPT !.pc = "flush"])
            ELSE stopVoiceConversation_release(sendBufferedAudio_skip(s2), p)
       ELSE stopVoiceConversation_release(s2, p)

\* Lines 441-453 of disconnectFromServer.
disconnectFromServer_end(s) ==
    LET s1 == [CloseStream(s, s.eventSourceRef) EXCEPT !.eventSourceRef = 0,
                                                         !.afterClose = TRUE]
    IN SetMessages(SetState(s1, "isConnected", FALSE), Add(Notice("disconnected")))

\* connectToServer(false) returns inside stopVoiceConversation (lines 264-272),
\* and disconnectFromServer goes on when it was the caller.
stopVoiceConversation_end(s, p, ok) ==
    LET s1 == SetMessages(connectToServer_end(s, FALSE, p.muted, ok),
                          Add(Notice("voice_stopped")))
    IN IF p.disc THEN disconnectFromServer_end(s1) ELSE s1

\* disconnectFromServer (lines 436-454); voice is the isVoiceEnabled its
\* closure holds.
disconnectFromServer(s, p, voice) ==
    IF voice THEN stopVoiceConversation_begin(s, p) ELSE disconnectFromServer_end(s)

\* toggleMute (lines 500-517); muted is the isMuted its closure holds.
\* Connecting a node to the destination of another context throws.
toggleMute(s, muted) ==
    IF s.audioPlayerNodeRef # 0 /\ s.audioPlayerContextRef # 0
    THEN IF muted /\ s.audioPlayerNodeRef # s.audioPlayerContextRef
         THEN s
         ELSE SetMessages(
                SetState([s EXCEPT !.players[s.audioPlayerNodeRef].out = muted],
                         "isMuted", ~muted),
                Add(Notice(IF muted THEN "unmuted" ELSE "muted")))
    ELSE s

\* inputValue.trim(): the input without the white space at its ends.
RECURSIVE TrimStart(_)
TrimStart(x) == IF x # <<>> /\ Head(x) = " " THEN TrimStart(Tail(x)) ELSE x

RECURSIVE TrimEnd(_)
TrimEnd(x) ==
    IF x # <<>> /\ x[Len(x)] = " " THEN TrimEnd(SubSeq(x, 1, Len(x) - 1)) ELSE x

Trim(x) == TrimEnd(TrimStart(x))

\* The message sendMessage builds (lines 460-465): the input as typed; its
\* id is a Date.now() string, written -1 like that of a notice.
UserMessage(input) == [id |-> -1, content |-> input, sender |-> "user"]

\* A sendMessage that adds nothing to the transcript before its request.
sendMessage_begin_late(s, input, conn) ==
    IF Trim(input) = <<>> \/ ~conn THEN s
    ELSE Spawn(s, [P0 EXCEPT !.kind = "send", !.pc = "post"])

\* sendMessage up to its await of the request (lines 457-470); input and
\* conn are the inputValue and isConnected its closure holds.
sendMessage_begin(s, input, conn) ==
    IF Trim(input) = <<>> \/ ~conn THEN s
    ELSE Spawn(SetMessages(s, Add(UserMessage(input))),
               [P0 EXCEPT !.kind = "send", !.pc = "post"])

\* The request is answered (lines 482-497): the input box is cleared, or the
\* catch block adds a notice.
sendMessage_end(s, ok) ==
    IF ok THEN s ELSE SetMessages(s, Add(Notice("send_failed")))

\* The cleanup of the mount effect (lines 287-303).
unmount(s) ==
    LET s1 == CloseStream(s, s.eventSourceRef)
        s2 == IF s1.bufferTimerRef # 0
              THEN [s1 EXCEPT !.timers[s1.bufferTimerRef].armed = FALSE] ELSE s1
        s3 == IF s2.micStreamRef # 0
              THEN [s2 EXCEPT !.recorders[s2.micStreamRef].mic = "stopped"] ELSE s2
        s4 == IF s3.audioPlayerContextRef # 0
              THEN [s3 EXCEPT !.players[s3.audioPlayerContextRef].closed = TRUE] ELSE s3
        s5 == IF s4.audioRecorderContextRef # 0
              THEN [s4 EXCEPT !.recorders[s4.audioRecorderContextRef].closed = TRUE]
              ELSE s4
    IN [s5 EXCEPT !.mounted = "unmounted"]

\* History: a stop, a disconnect or the teardown is requested; the starts
\* still acquiring their devices are marked.
RECURSIVE MarkStarts(_, _)
MarkStarts(b, todo) ==
    IF todo = {} THEN EmptyBag
    ELSE LET p == CHOOSE q \in todo : TRUE
             m == IF p.kind = "start" /\ p.pc \in {"player", "recorder"}
                  THEN [p EXCEPT !.cancelled = TRUE] ELSE p
         IN [x \in {m} |-> CopiesIn(p, b)] (+) MarkStarts(b, todo \ {p})

StopRequested(s) == [s EXCEPT !.procs = MarkStarts(@, BagToSet(@))]

\* The component after construction.
InitSession ==
    /\ mounted = "init"
    /\ isConnected = FALSE /\ isVoiceEnabled = FALSE /\ isRecording = FALSE
    /\ isMuted = FALSE /\ isTyping = FALSE
    /\ messages = <<Greeting>>
    /\ pendingMsgs = <<>> /\ dirty = FALSE
    /\ shown = [isConnected |-> FALSE, isVoiceEnabled |-> FALSE, isMuted |-> FALSE]
    /\ eventSourceRef = 0 /\ currentMessageIdRef = 0
    /\ audioPlayerNodeRef = 0 /\ audioPlayerContextRef = 0
    /\ audioRecorderNodeRef = 0 /\ audioRecorderContextRef = 0
    /\ micStreamRef = 0
    /\ audioBufferRef = <<>> /\ bufferTimerRef = 0
    /\ streams = <<>> /\ players = <<>> /\ recorders = <<>> /\ timers = <<>>
    /\ procs = EmptyBag
    /\ nextMsgId = 1 /\ nextChunk = 1
    /\ sentCount = <<>> /\ dropped = {}
    /\ lastAudioPost = [mode |-> "none", recording |-> FALSE, chunks |-> <<>>]
    /\ afterError = FALSE /\ afterClose = FALSE
    /\ turnText = <<>> /\ lastTurn = [id |-> 0, text |-> <<>>]
    /\ closedTurns = {}
    /\ openedOn = 0
    /\ used = [connects |-> 0, starts |-> 0, stops |-> 0, events |-> 0,
               errors |-> 0, chunks |-> 0, posts |-> 0, toggles |-> 0,
               restarts |-> 0, sends |-> 0, malformed |-> 0]

Init ==
    /\ InitSession
    /\ pcm = [input |-> <<>>, output |-> <<>>, done |-> FALSE]

\* The conversion alone: any frame is given to convertFloat32ToPCM.
InitConvert ==
    /\ InitSession
    /\ pcm \in {[input |-> x, output |-> <<>>, done |-> FALSE] :
                  x \in FramesUpTo(MaxFrameLen)}

Convert ==
    /\ ~pcm.done
    /\ Commit([Cur EXCEPT !.pcm.output = convertFloat32ToPCM(pcm.input),
                          !.pcm.done = TRUE])

SpecConvert == InitConvert /\ [][Convert]_vars

\* The mount effect (lines 283-285): connectToServer(false).
Mount ==
    /\ mounted = "init"
    /\ Commit(Spawn(connectToServer_begin(Requested([Cur EXCEPT !.mounted = "mounted"]),
                                       FALSE),
                    [P0 EXCEPT !.kind = "connect", !.pc = "health",
                               !.audio = FALSE, !.muted = isMuted]))

\* The Connect button (lines 683-692), shown while not connected.
ClickConnect ==
    /\ mounted = "mounted" /\ ~isConnected
    /\ used.connects < MaxConnectClicks
    /\ Commit(Spawn(connectToServer_begin(Requested(Use(Cur, "connects")), FALSE),
                    [P0 EXCEPT !.kind = "connect", !.pc = "health",
                               !.audio = FALSE, !.muted = isMuted]))

\* A connectToServer called from the mount effect or the button resumes.
ConnectResume ==
    \E p \in InFlight("connect"), ok \in BOOLEAN :
        Commit(connectToServer_end(Retire(Cur, p), p.audio, p.muted, ok))

\* The browser opens stream i.
EsOpen ==
    \E i \in 1..Len(streams) :
        /\ streams[i].rs = "connecting"
        /\ Commit(onopen([Cur EXCEPT !.streams[i].rs = "open"], i))

\* The server sends ev on stream i, which is open: onmessage runs.
Deliver(i, ev) ==
    /\ streams[i].rs = "open"
    /\ used.events < MaxEvents
    /\ Commit(onmessage(Opened(Received(Use(Cur, "events"), ev), i, ev), i, ev))

EsTextDelta ==
    \E i \in 1..Len(streams), d \in Texts : Deliver(i, [type |-> "text", data |-> d])

EsTurnComplete ==
    \E i \in 1..Len(streams) : Deliver(i, [type |-> "turn_complete", data |-> <<>>])

EsInterrupted ==
    \E i \in 1..Len(streams) : Deliver(i, [type |-> "interrupted", data |-> <<>>])

EsAudioChunk ==
    \E i \in 1..Len(streams), a \in AudioData :
        Deliver(i, [type |-> "audio", data |-> <<a>>])

\* The server sends a malformed payload on stream i, which is open.
EsMalformed ==
    \E i \in 1..Len(streams), raw \in Malformed :
        /\ streams[i].rs = "open"
        /\ used.malformed < MaxMalformed
        /\ Commit(onmessage_malformed(Use(Cur, "malformed"), i, raw))

\* Stream i fails: the browser either gives up (closed) or retries by itself
\* (connecting again); the error event is fired in both cases.
EsError ==
    \E i \in 1..Len(streams), fatal \in BOOLEAN :
        /\ streams[i].rs \in {"connecting", "open"}
        /\ used.errors < MaxErrors
        /\ Commit(onerror([Use(Cur, "errors") EXCEPT
                              !.streams[i].rs = IF fatal THEN "closed" ELSE "connecting"], i))

\* The output device plays the head of player n's queue.
Playback ==
    \E n \in 1..Len(players) :
        /\ ~players[n].closed /\ players[n].out /\ players[n].queue # <<>>
        /\ Commit([Cur EXCEPT !.players[n].queue = Tail(@)])

\* startVoiceConversation up to its first await (lines 175-180, 82-83); conn
\* and muted are the isConnected and isMuted its closure holds.
startVoiceConversation_begin(s, conn, muted) ==
    Spawn(startAudioPlayerWorklet_begin(s),
          [P0 EXCEPT !.kind = "start", !.pc = "player", !.conn = conn,
                     !.muted = muted, !.player = Len(s.players) + 1])

\* Start Voice (lines 626-636): shown while voice is off, enabled while
\* connected.  Pressed while no earlier press is still being served.
ClickStartVoice ==
    /\ mounted = "mounted" /\ isConnected /\ ~isVoiceEnabled
    /\ InFlight("start") = {}
    /\ used.starts < MaxStarts
    /\ Commit(startVoiceConversation_begin(Requested(Use(Cur, "starts")),
                                         isConnected, isMuted))

\* Start Voice pressed again while an earlier press is still acquiring its
\* devices: the button stays enabled until isVoiceEnabled is set.
ClickStartVoiceAgain ==
    /\ mounted = "mounted" /\ isConnected /\ ~isVoiceEnabled
    /\ InFlight("start") # {}
    /\ used.restarts < MaxRestarts
    /\ Commit(startVoiceConversation_begin(Requested(Use(Cur, "restarts")),
                                         isConnected, isMuted))

\* Start Voice pressed on the screen of a render that still shows it, after
\* isVoiceEnabled was set and before React has rendered again: the handler of
\* the render on screen runs.
ClickStartVoiceBeforeRender ==
    /\ mounted = "mounted" /\ dirty
    /\ shown.isConnected /\ ~shown.isVoiceEnabled
    /\ isVoiceEnabled
    /\ used.restarts < MaxRestarts
    /\ Commit(startVoiceConversation_begin(Requested(Use(Cur, "restarts")),
                                         shown.isConnected, shown.isMuted))

\* The player worklet module is loaded, or fails to load.
StartPlayerResume ==
    \E p \in InFlight("start"), ok \in BOOLEAN :
        /\ p.pc = "player"
        /\ Commit(IF ok THEN startVoiceConversation_player(Retire(Cur, p), p)
                  ELSE startVoiceConversation_catch(Retire(Cur, p)))

\* The recorder worklet is loaded and the microphone granted, or either fails.
StartRecorderResume ==
    \E p \in InFlight("start"), ok \in BOOLEAN :
        /\ p.pc = "recorder"
        /\ Commit(IF ok THEN startVoiceConversation_recorder(Retire(Cur, p), p)
                  ELSE startVoiceConversation_catch(Retire(Cur, p)))

StartConnectResume ==
    \E p \in InFlight("start"), ok \in BOOLEAN :
        /\ p.pc = "health"
        /\ Commit(startVoiceConversation_end(Retire(Cur, p), p, ok))

\* The recorder worklet of recorder r delivers a frame.
CaptureFrame ==
    \E r \in 1..Len(recorders), f \in Frames :
        /\ recorders[r].mic = "live" /\ ~recorders[r].closed
        /\ used.chunks < MaxChunks
        /\ Commit(audioRecorderHandler(IF IsSpeech(f) THEN Use(Cur, "chunks") ELSE Cur,
                                       r, f))

\* A 200 ms tick of timer t: sendBufferedAudio up to its await.
TimerTick ==
    \E t \in 1..Len(timers) :
        /\ timers[t].armed
        /\ IF sendBufferedAudio_posts(Cur, timers[t].conn)
           THEN /\ used.posts < MaxPosts
                /\ Commit(Spawn(AudioPost(Cur), [P0 EXCEPT !.kind = "flush", !.pc = "post"]))
           ELSE Commit(sendBufferedAudio_skip(Cur))

\* The request of a timer flush is answered (lines 161-171).
FlushResume ==
    \E p \in InFlight("flush") :
        Commit(sendBufferedAudio_clear(Retire(Cur, p)))

\* Stop Voice (lines 651-659), shown while voice is on.
ClickStopVoice ==
    /\ mounted = "mounted" /\ isVoiceEnabled
    /\ used.stops < MaxStops
    /\ Commit(stopVoiceConversation_begin(Requested(StopRequested(Use(Cur, "stops"))),
                  [P0 EXCEPT !.kind = "stop", !.conn = isConnected, !.muted = isMuted]))

\* The final flush of stopVoiceConversation is answered (lines 236-249).
StopFlushResume ==
    \E p \in InFlight("stop") :
        /\ p.pc = "flush"
        /\ Commit(stopVoiceConversation_release(sendBufferedAudio_clear(Retire(Cur, p)), p))

\* The player context is closed (lines 247-254).
StopPlayerClosed ==
    \E p \in InFlight("stop") :
        /\ p.pc = "closePlayer"
        /\ Commit(stopVoiceConversation_closeRecorder(
                      [Retire(Cur, p) EXCEPT !.audioPlayerContextRef = 0], p))

\* The recorder context is closed (lines 252-264).
StopRecorderClosed ==
    \E p \in InFlight("stop") :
        /\ p.pc = "closeRecorder"
        /\ Commit(stopVoiceConversation_reconnect(
                      [Retire(Cur, p) EXCEPT !.audioRecorderContextRef = 0], p))

StopConnectResume ==
    \E p \in InFlight("stop"), ok \in BOOLEAN :
        /\ p.pc = "health"
        /\ Commit(stopVoiceConversation_end(Retire(Cur, p), p, ok))

\* The Disconnect button (lines 674-682), shown while connected.
ClickDisconnect ==
    /\ mounted = "mounted" /\ isConnected
    /\ used.stops < MaxStops
    /\ Commit(disconnectFromServer(StopRequested(Use(Cur, "stops")),
                  [P0 EXCEPT !.kind = "stop", !.conn = isConnected, !.muted = isMuted,
                             !.disc = TRUE],
                  isVoiceEnabled))

\* The mute button (lines 639-650), shown while voice is on.
ClickMute ==
    /\ mounted = "mounted" /\ isVoiceEnabled
    /\ used.toggles < MaxToggles
    /\ Commit(toggleMute(Use(Cur, "toggles"), isMuted))

\* The Send button or the Enter key (lines 519-524, 789-799) with input in
\* the box; the box takes keys only while connected.
Send(input) ==
    /\ mounted = "mounted" /\ isConnected
    /\ used.sends < MaxSends
    /\ Commit(sendMessage_begin(Use(Cur, "sends"), input, isConnected))

ClickSend == \E input \in Inputs : Send(input)

\* The request of a sendMessage is answered, or fails.
SendResume ==
    \E p \in InFlight("send"), ok \in BOOLEAN :
        Commit(sendMessage_end(Retire(Cur, p), ok))

\* The page is left.
Unmount ==
    /\ mounted = "mounted"
    /\ Commit(unmount(StopRequested(Cur)))

Render ==
    /\ dirty
    /\ Commit(RenderState(Cur))

Next ==
    \/ Mount
    \/ ClickConnect
    \/ ConnectResume
    \/ EsOpen
    \/ EsTextDelta
    \/ EsTurnComplete
    \/ EsInterrupted
    \/ EsAudioChunk
    \/ EsMalformed
    \/ EsError
    \/ Playback
    \/ ClickStartVoice
    \/ ClickStartVoiceAgain
    \/ ClickStartVoiceBeforeRender
    \/ StartPlayerResume
    \/ StartRecorderResume
    \/ StartConnectResume
    \/ CaptureFrame
    \/ TimerTick
    \/ FlushResume
    \/ ClickStopVoice
    \/ StopFlushResume
    \/ StopPlayerClosed
    \/ StopRecorderClosed
    \/ StopConnectResume
    \/ ClickDisconnect
    \/ ClickMute
    \/ ClickSend
    \/ SendResume
    \/ Unmount
    \/ Render

\* The whole component.
Spec == Init /\ [][Next]_vars

\* The connection alone: the user connects and disconnects, the stream opens
\* and fails; voice is never started and the server sends nothing.
NextConnect ==
    \/ Mount
    \/ ClickConnect
    \/ ConnectResume
    \/ EsOpen
    \/ EsError
    \/ ClickDisconnect

SpecConnect == Init /\ [][NextConnect]_vars

\* The voice conversation: capture, the flush timer, start, stop, disconnect
\* and teardown, on a stream that does not fail and carries no event.
NextVoice ==
    \/ Mount
    \/ ConnectResume
    \/ EsOpen
    \/ ClickStartVoice
    \/ StartPlayerResume
    \/ StartRecorderResume
    \/ StartConnectResume
    \/ CaptureFrame
    \/ TimerTick
    \/ FlushResume
    \/ ClickStopVoice
    \/ StopFlushResume
    \/ StopPlayerClosed
    \/ StopRecorderClosed
    \/ StopConnectResume
    \/ ClickDisconnect
    \/ Unmount

SpecVoice == Init /\ [][NextVoice]_vars

\* The text turn: deltas, turn ends and interruptions arrive on the stream
\* and React renders; voice is never started.
NextTurn ==
    \/ Mount
    \/ ConnectResume
    \/ EsOpen
    \/ EsTextDelta
    \/ EsTurnComplete
    \/ EsInterrupted
    \/ Render

SpecTurn == Init /\ [][NextTurn]_vars

\* Playback: voice is started, audio and interruptions arrive, the user mutes.
NextPlayback ==
    \/ Mount
    \/ ConnectResume
    \/ EsOpen
    \/ ClickStartVoice
    \/ ClickStartVoiceAgain
    \/ StartPlayerResume
    \/ StartRecorderResume
    \/ StartConnectResume
    \/ EsAudioChunk
    \/ EsInterrupted
    \/ Playback
    \/ ClickMute

SpecPlayback == Init /\ [][NextPlayback]_vars

\* Starting voice: the user presses Start Voice, possibly twice, and the
\* acquisitions succeed or fail, and React renders; nothing is captured and
\* voice is not stopped.
NextStart ==
    \/ Mount
    \/ ConnectResume
    \/ EsOpen
    \/ Render
    \/ ClickStartVoice
    \/ ClickStartVoiceAgain
    \/ ClickStartVoiceBeforeRender
    \/ StartPlayerResume
    \/ StartRecorderResume
    \/ StartConnectResume

SpecStart == Init /\ [][NextStart]_vars

\* Failures: health requests fail, the stream fails, the acquisitions of a
\* start fail, while the user connects, starts and stops voice and leaves the
\* page; nothing is captured and the server sends nothing.
NextFailure ==
    \/ Mount
    \/ ClickConnect
    \/ ConnectResume
    \/ EsOpen
    \/ EsError
    \/ ClickStartVoice
    \/ StartPlayerResume
    \/ StartRecorderResume
    \/ StartConnectResume
    \/ ClickStopVoice
    \/ StopPlayerClosed
    \/ StopRecorderClosed
    \/ StopConnectResume
    \/ Unmount

SpecFailure == Init /\ [][NextFailure]_vars

\* Sending text: the user sends messages and the requests succeed or fail,
\* while the stream opens and fails and the user connects again; the server
\* sends nothing on the stream.
NextSend ==
    \/ Mount
    \/ ClickConnect
    \/ ConnectResume
    \/ EsOpen
    \/ EsError
    \/ ClickSend
    \/ SendResume

SpecSend == Init /\ [][NextSend]_vars

\* Malformed events: the server sends text, audio and malformed payloads on
\* the stream, in text mode and after voice was started.
NextMalformed ==
    \/ Mount
    \/ ConnectResume
    \/ EsOpen
    \/ EsTextDelta
    \/ EsAudioChunk
    \/ EsMalformed
    \/ ClickStartVoice
    \/ StartPlayerResume
    \/ StartRecorderResume
    \/ StartConnectResume

SpecMalformed == Init /\ [][NextMalformed]_vars

\* Capture: voice is started, the recorder delivers frames and the timer
\* flushes the buffer; voice is not stopped.
NextCapture ==
    \/ Mount
    \/ ConnectResume
    \/ EsOpen
    \/ ClickStartVoice
    \/ StartPlayerResume
    \/ StartRecorderResume
    \/ StartConnectResume
    \/ CaptureFrame
    \/ TimerTick
    \/ FlushResume

SpecCapture == Init /\ [][NextCapture]_vars

\* Muting across conversations: voice is started, muted, stopped and started
\* again, on a stream that does not fail and carries no event.
NextMute ==
    \/ Mount
    \/ ConnectResume
    \/ EsOpen
    \/ ClickStartVoice
    \/ StartPlayerResume
    \/ StartRecorderResume
    \/ StartConnectResume
    \/ ClickMute
    \/ ClickStopVoice
    \/ StopPlayerClosed
    \/ StopRecorderClosed
    \/ StopConnectResume

SpecMute == Init /\ [][NextMute]_vars

\* Turns across connections: text arrives while the stream fails and the
\* user disconnects and connects again; voice is never started.
NextReconnect ==
    \/ Mount
    \/ ClickConnect
    \/ ConnectResume
    \/ EsOpen
    \/ EsTextDelta
    \/ EsTurnComplete
    \/ EsError
    \/ ClickDisconnect

SpecReconnect == Init /\ [][NextReconnect]_vars

\* ---------------------------------------------------------------- claims
OpenStreams == {i \in 1..Len(streams) : streams[i].rs = "open"}
LiveStreams == {i \in 1..Len(streams) : streams[i].rs # "closed"}

\* C1: in every reachable state at most one EventSource is open, whatever the
\* interleaving of connect requests with their health checks.
C1_AtMostOneStream == Cardinality(OpenStreams) <= 1

\* C2: an outbound audio frame is issued only while the session's stream mode
\* is audio and recording is true.
C2_AudioOnlyWhileRecording ==
    lastAudioPost.chunks # <<>> =>
        (lastAudioPost.mode = "audio" /\ lastAudioPost.recording)

\* C3: while the session is connected every chunk appended to the pending
\* buffer is carried by exactly one outbound audio frame: none is sent twice
\* and none is discarded unsent.
C3_EachChunkOnce ==
    /\ \A c \in 1..Len(sentCount) : sentCount[c] <= 1
    /\ dropped = {}

\* C4: once React has run every queued update, the agent message of the turn
\* that the last turn_complete closed is in the transcript exactly once and
\* its content is the concatenation of the deltas received in that turn.
C4_TurnText ==
    (pendingMsgs = <<>> /\ lastTurn.id # 0) =>
        /\ Cardinality({i \in 1..Len(messages) : messages[i].id = lastTurn.id}) = 1
        /\ \A i \in 1..Len(messages) :
              messages[i].id = lastTurn.id => messages[i].content = lastTurn.text

\* C5: after a turn_complete or an interrupted event is processed the
\* current-message pointer is none and typing is false.
C5_PointerReset ==
    [][(EsTurnComplete \/ EsInterrupted) =>
          (currentMessageIdRef' = 0 /\ isTyping' = FALSE)]_vars

\* C6: immediately after an interrupted event is processed no playback
\* pipeline that can still sound holds queued audio.
C6_QueueEmptyAfterInterrupt ==
    [][EsInterrupted =>
          \A n \in 1..Len(players') :
              players'[n].closed \/ players'[n].queue = <<>>]_vars

\* C7: after a stream error the session stays not connected until the user
\* asks for a connection.
C7_NoAutoReconnect == afterError => (~isConnected /\ OpenStreams = {})

\* C8: once disconnectFromServer has completed, no stream is open and
\* connected is false until the user asks for a connection again.
C8_ClosedIsTerminal == afterClose => (~isConnected /\ LiveStreams = {})

\* C9: a start that was still acquiring its devices when a stop, a disconnect
\* or the teardown was requested never ends up holding a microphone.
C9_AbandonedStart ==
    \A r \in 1..Len(recorders) : ~(recorders[r].unwanted /\ recorders[r].mic = "live")

\* C10: at most one flush timer is armed at any time, and when
\* stopVoiceConversation has completed none is armed and the pending buffer
\* is empty.
C10_TimerCancelled ==
    /\ [](Cardinality({t \in 1..Len(timers) : timers[t].armed}) <= 1)
    /\ [][StopConnectResume =>
            (/\ \A t \in 1..Len(timers') : ~timers'[t].armed
             /\ audioBufferRef' = <<>>)]_vars

\* C11: at most one live microphone handle exists at any time, and the
\* reference to a live microphone is never overwritten by a later start.
LiveMics == {r \in 1..Len(recorders) : recorders[r].mic = "live"}

C11_OneMicrophone ==
    /\ Cardinality(LiveMics) <= 1
    /\ \A r \in LiveMics : micStreamRef = r

\* C12: a start requested while voice is already active, with no stop in
\* between, leaves the pipelines untouched: it creates no audio context.
C12_StartIdempotent ==
    [][ClickStartVoiceBeforeRender =>
          (players' = players /\ recorders' = recorders)]_vars

\* The notices of one kind the transcript holds or is about to hold.
NoticeCount(ms, ops, kind) ==
    Cardinality({i \in 1..Len(ms) : ms[i].id = -1 /\ ms[i].content = <<kind>>})
    + Cardinality({i \in 1..Len(ops) :
                      ops[i].op = "add" /\ ops[i].msg.content = <<kind>>})

\* A call of connectToServer resumes with its health request failed or not
\* OK: the call of the mount effect or the Connect button, the reconnect of
\* startVoiceConversation, or that of stopVoiceConversation.
HealthFailed ==
    \/ \E p \in InFlight("connect") :
          Commit(connectToServer_end(Retire(Cur, p), p.audio, p.muted, FALSE))
    \/ \E p \in InFlight("start") :
          p.pc = "health" /\ Commit(startVoiceConversation_end(Retire(Cur, p), p, FALSE))
    \/ \E p \in InFlight("stop") :
          p.pc = "health" /\ Commit(stopVoiceConversation_end(Retire(Cur, p), p, FALSE))

\* C13: when the health request of a connectToServer call fails or is not OK,
\* the call creates no EventSource, connected is false afterwards and a
\* failure notice is added to the transcript (of the mounted component).
C13_HealthBeforeStream ==
    [][HealthFailed =>
          /\ Len(streams') = Len(streams)
          /\ eventSourceRef' \in {0, eventSourceRef}
          /\ mounted = "mounted" =>
                /\ ~isConnected'
                /\ NoticeCount(messages', pendingMsgs', "connect_failed")
                     = NoticeCount(messages, pendingMsgs, "connect_failed") + 1]_vars

\* A health request has failed after a stream had been created: the failure
\* is in the transcript and the session is not connected.
C13_Witness ==
    /\ Len(streams) >= 1
    /\ ~isConnected
    /\ NoticeCount(messages, pendingMsgs, "connect_failed") >= 1

\* C14: an inbound audio chunk is enqueued to the playback pipeline if and
\* only if, when the event is processed, the muted flag is false and playback
\* has been started.
C14_MutedChunks ==
    [][EsAudioChunk =>
          ((players' # players) <=> (~isMuted /\ audioPlayerNodeRef # 0))]_vars

\* C15: a flush issues an outbound audio request only if the session is
\* connected at the time of the flush and the pending buffer is not empty.
C15_FlushOnlyConnected ==
    [][used'.posts # used.posts => (isConnected /\ audioBufferRef # <<>>)]_vars

\* A startVoiceConversation resumes with a pipeline that failed to start: the
\* player worklet did not load, or the recorder worklet did not load or the
\* microphone was refused.
StartFailed ==
    \E p \in InFlight("start") :
        /\ p.pc \in {"player", "recorder"}
        /\ Commit(startVoiceConversation_catch(Retire(Cur, p)))

\* The reconnects in audio mode that starts are awaiting.
AudioReconnects(b) == {p \in BagToSet(b) : p.kind = "start" /\ p.pc = "health"}

\* C16: when a pipeline fails to start, startVoiceConversation sets neither
\* recording nor voiceActive, begins no reconnect in audio mode, and leaves
\* the stream and its mode as they were.
C16_FailedStartLeavesSession ==
    [][StartFailed =>
          /\ isRecording' = isRecording
          /\ isVoiceEnabled' = isVoiceEnabled
          /\ streams' = streams
          /\ eventSourceRef' = eventSourceRef
          /\ AudioReconnects(procs') = AudioReconnects(procs)]_vars

\* The microphone was refused after the player had started: the failure is
\* in the transcript, voice is off and the text stream is still open.
C16_Witness ==
    /\ NoticeCount(messages, pendingMsgs, "voice_failed") >= 1
    /\ audioPlayerNodeRef # 0
    /\ InFlight("start") = {}
    /\ ~isVoiceEnabled /\ ~isRecording
    /\ StreamMode(Cur) = "text"

\* C17: every fatal error adds a notice to the transcript (of the mounted
\* component): a failed health request of any connectToServer call, the
\* reconnects of start and stop voice included, a stream error, and a
\* pipeline that fails to start.
C17_ErrorNotice ==
    [][mounted = "mounted" =>
          /\ HealthFailed =>
                NoticeCount(messages', pendingMsgs', "connect_failed")
                  > NoticeCount(messages, pendingMsgs, "connect_failed")
          /\ EsError =>
                NoticeCount(messages', pendingMsgs', "connection_lost")
                  > NoticeCount(messages, pendingMsgs, "connection_lost")
          /\ StartFailed =>
                NoticeCount(messages', pendingMsgs', "voice_failed")
                  > NoticeCount(messages, pendingMsgs, "voice_failed")]_vars

\* The three kinds of failure have all happened in one session and each left
\* its notice; the Connect button was never pressed and voice is on, so the
\* health request that failed is that of a reconnect.
C17_Witness ==
    /\ NoticeCount(messages, pendingMsgs, "connect_failed") >= 1
    /\ NoticeCount(messages, pendingMsgs, "connection_lost") >= 1
    /\ NoticeCount(messages, pendingMsgs, "voice_failed") >= 1
    /\ isVoiceEnabled
    /\ used.connects = 0

\* The user's messages the transcript holds or is about to hold, in order.
IsUserMessage(m) == m.sender = "user"
IsUserAdd(o) == o.op = "add" /\ o.msg.sender = "user"

UserMessages(ms, ops) ==
    LET adds == SelectSeq(ops, IsUserAdd)
    IN SelectSeq(ms, IsUserMessage) \o [i \in 1..Len(adds) |-> adds[i].msg]

IsPrefix(a, b) == Len(a) <= Len(b) /\ SubSeq(b, 1, Len(a)) = a

\* C18: the step that issues the request of a sent text has added the user's
\* message to the transcript, before any response, and the user's messages
\* stay in the transcript whatever happens next.
C18_OptimisticSend ==
    [][/\ \A input \in Inputs :
             (Send(input) /\ procs' # procs) =>
                 UserMessages(messages', pendingMsgs')
                   = Append(UserMessages(messages, pendingMsgs), UserMessage(input))
       /\ IsPrefix(UserMessages(messages, pendingMsgs),
                   UserMessages(messages', pendingMsgs'))]_vars

\* A user message is still in the transcript after its send failed, the
\* stream failed and a later connect failed its health request.
C18_Witness ==
    \E i, j, k, l \in 1..Len(messages) :
        /\ i < j /\ j < k /\ k < l
        /\ messages[i].sender = "user"
        /\ messages[j].content = <<"send_failed">>
        /\ messages[k].content = <<"connection_lost">>
        /\ messages[l].content = <<"connect_failed">>

\* No step removes or reorders a message: the transcript grows at its end and
\* a message keeps its place, its id and its sender, and its content only
\* grows at its end.
Extends(old, new) ==
    /\ Len(old) <= Len(new)
    /\ \A i \in 1..Len(old) :
          /\ new[i].id = old[i].id
          /\ new[i].sender = old[i].sender
          /\ IsPrefix(old[i].content, new[i].content)

\* C19: the transcript is append-only under every step, the content of an
\* existing message changes only for the agent message the pointer names, and
\* a delta is appended only to the message of a turn that has not ended.
C19_AppendOnly ==
    [][/\ Extends(messages, messages')
       /\ \A i \in 1..Len(messages) :
             messages'[i].content # messages[i].content =>
                 (messages[i].id = currentMessageIdRef /\ messages[i].sender = "ai")
       /\ (EsTextDelta /\ currentMessageIdRef # 0
             /\ (messages' # messages \/ pendingMsgs' # pendingMsgs)) =>
                 currentMessageIdRef \notin closedTurns]_vars

\* C20: a malformed inbound event is dropped without effect: the transcript,
\* the typing flag, the current-message pointer, the playback queues and the
\* connected flag are unchanged and the stream stays open.
C20_MalformedDropped ==
    [][EsMalformed =>
          /\ messages' = messages /\ pendingMsgs' = pendingMsgs
          /\ isTyping' = isTyping
          /\ currentMessageIdRef' = currentMessageIdRef
          /\ players' = players
          /\ isConnected' = isConnected
          /\ streams' = streams]_vars

\* A malformed event was delivered in a session that has an open agent
\* message, queued audio and an open stream.
C20_Witness ==
    /\ used.malformed >= 1
    /\ currentMessageIdRef # 0 /\ isTyping
    /\ \E n \in 1..Len(players) : players[n].queue # <<>>
    /\ isConnected /\ OpenStreams # {}

\* The request of a sent text fails or is answered not OK: sendMessage
\* resumes in its catch block (lines 481-497).
TextSendFailed ==
    \E p \in InFlight("send") : Commit(sendMessage_end(Retire(Cur, p), FALSE))

\* The requests in flight that carry text or audio to the server.
Outbound(b) ==
    [p \in {q \in BagToSet(b) : q.kind \in {"send", "flush"} \/ q.pc = "flush"}
        |-> CopiesIn(p, b)]

\* C21: a failed outbound request, text or audio, is not retried and adds no
\* message to the transcript, and a send is never held back by the requests
\* still in flight.  (An audio request resumes the same way whether it failed
\* or not: FlushResume, StopFlushResume.)
C21_SendFailureContained ==
    [][/\ (TextSendFailed \/ FlushResume \/ StopFlushResume) =>
             /\ messages' = messages /\ pendingMsgs' = pendingMsgs
             /\ \A p \in BagToSet(Outbound(procs')) :
                   CopiesIn(p, Outbound(procs')) <= CopiesIn(p, Outbound(procs))
             /\ used'.posts = used.posts
       /\ \A input \in Inputs :
             (mounted = "mounted" /\ isConnected /\ used.sends < MaxSends
                /\ Trim(input) # <<>>) => ENABLED Send(input)]_vars

\* disconnectFromServer completes: at once when its closure holds
\* isVoiceEnabled false (lines 441-453), or when the stopVoiceConversation it
\* awaited returns (lines 438-453).
DisconnectedAtOnce == ClickDisconnect /\ ~isVoiceEnabled

DisconnectedAfterStop ==
    \E p \in InFlight("stop"), ok \in BOOLEAN :
        /\ p.pc = "health" /\ p.disc
        /\ Commit(stopVoiceConversation_end(Retire(Cur, p), p, ok))

\* Both audio pipelines are stopped: no microphone is live, and the context
\* of every player node and of every recorder that got a microphone is
\* closed.
PipelinesStopped ==
    /\ LiveMics = {}
    /\ \A n \in 1..Len(players) : players[n].node => players[n].closed
    /\ \A r \in 1..Len(recorders) : recorders[r].mic # "none" => recorders[r].closed

\* C22: when disconnectFromServer has completed (in the mounted component) no
\* stream is open and connected, recording and voiceActive are false; when it
\* was requested with voice active both audio pipelines are stopped by then;
\* and running its closing part again changes none of these.
C22_DisconnectStopsAll ==
    [][((DisconnectedAtOnce \/ DisconnectedAfterStop) /\ mounted' = "mounted") =>
          /\ OpenStreams' = {}
          /\ ~isConnected' /\ ~isRecording' /\ ~isVoiceEnabled'
          /\ DisconnectedAfterStop => PipelinesStopped'
          /\ LET again == disconnectFromServer_end(Cur')
             IN /\ again.streams = streams'
                /\ again.isConnected = isConnected'
                /\ again.isRecording = isRecording'
                /\ again.isVoiceEnabled = isVoiceEnabled']_vars

\* Capture is not running and no start or stop is under way: voice was never
\* started, or it was stopped and the stop has returned.
CaptureStopped ==
    /\ mounted = "mounted"
    /\ ~isVoiceEnabled /\ ~isRecording
    /\ micStreamRef = 0 /\ audioRecorderNodeRef = 0 /\ audioRecorderContextRef = 0
    /\ InFlight("start") = {} /\ InFlight("stop") = {}

\* The state stopVoiceConversation leaves at its first await when it is
\* called now (lines 222-264).
StoppedAgain ==
    stopVoiceConversation_begin(Cur, [P0 EXCEPT !.kind = "stop", !.conn = isConnected,
                                                !.muted = isMuted])

\* C23: stopVoiceConversation called while capture is not running leaves the
\* state unchanged: no timer is cleared or armed, no audio request is issued,
\* no device is touched, and the pending buffer, the flags and the connection
\* are as before.
C23_StopWhenStopped ==
    CaptureStopped =>
        /\ StoppedAgain.timers = timers /\ StoppedAgain.bufferTimerRef = bufferTimerRef
        /\ StoppedAgain.used.posts = used.posts
        /\ StoppedAgain.players = players /\ StoppedAgain.recorders = recorders
        /\ StoppedAgain.audioBufferRef = audioBufferRef
        /\ StoppedAgain.isRecording = isRecording
        /\ StoppedAgain.isVoiceEnabled = isVoiceEnabled
        /\ StoppedAgain.isConnected = isConnected
        /\ StoppedAgain.streams = streams
        /\ StoppedAgain.eventSourceRef = eventSourceRef

\* The sample the claim describes for input x = k / den: x scaled by 32767,
\* clamped to [-32768, 32767], its fraction dropped.
ClampedSample(x) ==
    IF x.nan THEN 0
    ELSE IF x.k * PcmScale >= PcmMax * x.den THEN PcmMax
    ELSE IF x.k * PcmScale <= PcmMin * x.den THEN PcmMin
    ELSE IF x.k >= 0 THEN (x.k * PcmScale) \div x.den
    ELSE -((-x.k * PcmScale) \div x.den)

\* C25: for every input frame, each output sample of convertFloat32ToPCM is
\* the input scaled by 32767 and clamped to [-32768, 32767] before narrowing:
\* it lies in that range and never has the sign opposite to its input.
C25_ConvertClamps ==
    pcm.done =>
        /\ Len(pcm.output) = Len(pcm.input)
        /\ \A i \in 1..Len(pcm.input) :
              /\ pcm.output[i] = ClampedSample(pcm.input[i])
              /\ pcm.output[i] >= PcmMin /\ pcm.output[i] <= PcmMax
              /\ (~pcm.input[i].nan /\ pcm.input[i].k > 0) => pcm.output[i] >= 0
              /\ (~pcm.input[i].nan /\ pcm.input[i].k < 0) => pcm.output[i] <= 0

\* A frame with a sample beyond full scale in each direction was converted,
\* and the outputs are the two ends of the range.
C25_Witness ==
    /\ pcm.done
    /\ \E i, j \in 1..Len(pcm.input) :
          /\ ~pcm.input[i].nan /\ pcm.input[i].k > pcm.input[i].den
          /\ pcm.output[i] = PcmMax
          /\ ~pcm.input[j].nan /\ pcm.input[j].k < -pcm.input[j].den
          /\ pcm.output[j] = PcmMin

\* Recorder r delivers frame f: CaptureFrame for one recorder and one frame.
Captured(r, f) ==
    /\ recorders[r].mic = "live" /\ ~recorders[r].closed
    /\ used.chunks < MaxChunks
    /\ Commit(audioRecorderHandler(IF IsSpeech(f) THEN Use(Cur, "chunks") ELSE Cur, r, f))

\* C24: the capture handler appends a frame to the pending buffer if and
\* only if the sum of its squared samples exceeds 100 * 100 times its sample
\* count; any other frame, an all-zero or empty one included, changes neither
\* the pending buffer nor the flush timer.
C24_VoiceGate ==
    [][\A r \in 1..Len(recorders), f \in Frames :
          Captured(r, f) =>
             IF SumSq(f) > 100 * 100 * Len(f)
             THEN /\ audioBufferRef' = Append(audioBufferRef, nextChunk)
                  /\ bufferTimerRef' # 0
             ELSE /\ audioBufferRef' = audioBufferRef
                  /\ bufferTimerRef' = bufferTimerRef /\ timers' = timers]_vars

\* A frame above the threshold was appended to the buffer and armed the
\* timer, after a flush had emptied the buffer once.
C24_Witness ==
    /\ used.chunks >= 2 /\ used.posts >= 1
    /\ Len(audioBufferRef) = 1
    /\ bufferTimerRef # 0 /\ timers[bufferTimerRef].armed

\* The start p resumes with the recorder pipeline failed, after its playback
\* pipeline was opened: the recorder worklet did not load or the microphone
\* was refused (lines 186, 209-218).
RecorderFailed(p) ==
    /\ p \in InFlight("start") /\ p.pc = "recorder"
    /\ Commit(startVoiceConversation_catch(Retire(Cur, p)))

\* C26: when a start fails after its playback pipeline was opened, the
\* failure handling releases that pipeline: its audio context is closed and
\* neither the player node ref nor the player context ref names it, so no
\* later audio chunk is enqueued to it.
C26_FailedStartReleases ==
    [][\A p \in BagToSet(procs) :
          RecorderFailed(p) =>
             /\ players'[p.player].closed
             /\ audioPlayerNodeRef' # p.player
             /\ audioPlayerContextRef' # p.player]_vars

\* C27: while the component is mounted, connected is true only while the
\* EventSource the session holds exists and has opened.
C27_ConnectedMeansOpen ==
    (mounted = "mounted" /\ isConnected) =>
        (eventSourceRef # 0 /\ streams[eventSourceRef].rs = "open")

\* No operation is in flight: no async call is suspended at an await and the
\* stream the session holds is not still connecting.
Quiescent ==
    /\ mounted = "mounted"
    /\ procs = EmptyBag
    /\ (eventSourceRef # 0 => streams[eventSourceRef].rs # "connecting")

\* C28: whenever no operation is in flight, the mode of the session's stream
\* agrees with the voice flag: voice active means a stream in audio mode, and
\* a stream with voice not active is in text mode.
C28_ModeMatchesVoice ==
    Quiescent =>
        /\ isVoiceEnabled => StreamMode(Cur) = "audio"
        /\ (~isVoiceEnabled /\ StreamMode(Cur) # "none") => StreamMode(Cur) = "text"

\* The session has a playback pipeline: the player node ref names a node
\* whose context is not closed.
HasPlayback == audioPlayerNodeRef # 0 /\ ~players[audioPlayerNodeRef].closed

\* C29: while the component is mounted and the session has a playback
\* pipeline, muted is true if and only if the player node is disconnected
\* from the output.
C29_MutedMatchesOutput ==
    (mounted = "mounted" /\ HasPlayback) =>
        (isMuted <=> ~players[audioPlayerNodeRef].out)

\* C30: turn state does not leak across connections: while the component is
\* mounted typing is false whenever the session is not connected, and a text
\* delta is appended to the open agent message only on the stream that opened
\* it, so the first delta of another stream opens a new message.
C30_NoTurnLeak ==
    /\ []((mounted = "mounted" /\ ~isConnected) => ~isTyping)
    /\ [][\A i \in 1..Len(streams), d \in Texts :
            (d # <<>> /\ currentMessageIdRef # 0
               /\ Deliver(i, [type |-> "text", data |-> d])) => openedOn = i]_vars
====
